---- MODULE Spec2Model ----
(***************************************************************************)
(* Model of avdp_dashboard.py: a Streamlit script that is re-executed top  *)
(* to bottom on every widget interaction of every browser session.        *)
(*                                                                         *)
(*   - generate_sample_data() draws three tables from numpy's global      *)
(*     random generator; it is wrapped in @st.cache_data, a process-wide  *)
(*     memo shared by all sessions.                                        *)
(*   - the rest of the script reads the four sidebar widgets, filters the *)
(*     three tables, computes KPIs and grouped means, builds the map      *)
(*     markers and exports the filtered tables as CSV.                     *)
(*                                                                         *)
(* Floats are fixed-point integers in thousandths (uniform(0.3, 0.9) is a  *)
(* value in 300..899); a mean is an exact reduced fraction <<num, den>>,   *)
(* and the mean of no values is the value NaN, as in pandas.               *)
(***************************************************************************)
EXTENDS Integers, Sequences, FiniteSets, TLC

VARIABLES
    rng,        \* numpy's global generator: [seed, pos], pos = draws consumed
    cache,      \* st.cache_data store of generate_sample_data: <<>> or <<entry>>
    genCalls,   \* number of executions of generate_sample_data's body
    widgets,    \* per session: the sidebar widget values
    pc,         \* per session: "new" (never run) or "rendered"
    frame,      \* per session: the script's variables after its last run
    reruns      \* number of widget interactions served so far

vars == <<rng, cache, genCalls, widgets, pc, frame, reruns>>

(***************************************************************************)
(* Bounds of the model.                                                    *)
(***************************************************************************)
MaxSeed == 1        \* the generator is seeded with one of 0..MaxSeed
MaxReruns == 1      \* widget interactions served, over all sessions
MaxPick == 1        \* SpecAgg: district selections of at most MaxPick names

Seeds == 0..MaxSeed
Sessions == {"s1", "s2"}

NoFrame == [outcome |-> "NotRun"]

(***************************************************************************)
(* Static configuration of generate_sample_data.                           *)
(***************************************************************************)
districts ==
    <<"Western Area", "Bo", "Kenema", "Kailahun", "Kono", "Bombali",
      "Tonkolili", "Port Loko">>

csa_techniques ==
    <<"Raised Beds", "Mulching", "Drip Irrigation", "Composting",
      "Intercropping">>

YearStart == 2020
YearStop == 2025

\* Faulty variant: the stop value is included.
RangeInclusive(a, b) == [k \in 1..(IF b >= a THEN b - a + 1 ELSE 0) |-> a + k - 1]

\* Python's range(a, b): a, a+1, ..., b-1.
Range(a, b) == [k \in 1..(IF b > a THEN b - a ELSE 0) |-> a + k - 1]

years == Range(YearStart, YearStop)

(***************************************************************************)
(* numpy's global generator, as a counter-based generator: the k-th draw   *)
(* after seeding is a fixed function of the seed and of k.                 *)
(***************************************************************************)
Mix(seed, k) ==
    LET x == (seed * 8191 + k * 127 + 1) % 46337
    IN  (x * x + x) % 65537

\* np.random.randint(lo, hi): an integer in [lo, hi).
randint(g, k, lo, hi) == lo + (Mix(g.seed, g.pos + k) % (hi - lo))

\* np.random.uniform(lo, hi) in thousandths: a value in [lo, hi).
uniform(g, k, lo, hi) == lo + (Mix(g.seed, g.pos + k) % (hi - lo))

\* Draws consumed by one row of each table.
IvsDraws == 9
TreeDraws == 5
VegDraws == 5

ivs_row(g, r, district, year) ==
    LET b == r * IvsDraws
    IN  << <<"District", district>>,
           <<"Year", year>>,
           <<"Hectares_Developed", randint(g, b, 50, 200)>>,
           <<"Farmers_Count", randint(g, b + 1, 100, 500)>>,
           <<"Women_Farmers", randint(g, b + 2, 40, 200)>>,
           <<"Youth_Farmers", randint(g, b + 3, 20, 100)>>,
           <<"CSA_Adoption_Rate", uniform(g, b + 4, 300, 900)>>,
           <<"Yield_Traditional", uniform(g, b + 5, 2000, 3500)>>,
           <<"Yield_CSA", uniform(g, b + 6, 3500, 6000)>>,
           <<"Income_Before", uniform(g, b + 7, 500000, 1200000)>>,
           <<"Income_After", uniform(g, b + 8, 800000, 2000000)>> >>

tree_row(g, r, district, year) ==
    LET b == r * TreeDraws
    IN  << <<"District", district>>,
           <<"Year", year>>,
           <<"Cocoa_Seedlings", randint(g, b, 1000, 5000)>>,
           <<"Oil_Palm_Seedlings", randint(g, b + 1, 500, 3000)>>,
           <<"Survival_Rate_Year2", uniform(g, b + 2, 700, 950)>>,
           <<"Farmers_Trained", randint(g, b + 3, 50, 300)>>,
           <<"Income_Change", uniform(g, b + 4, 200000, 800000)>> >>

veg_row(g, r, district, technique) ==
    LET b == r * VegDraws
    IN  << <<"District", district>>,
           <<"CSA_Technique", technique>>,
           <<"Farmers_Supported", randint(g, b, 20, 150)>>,
           <<"Onion_Yield_Increase", uniform(g, b + 1, 200, 800)>>,
           <<"Pepper_Yield_Increase", uniform(g, b + 2, 150, 600)>>,
           <<"Price_Premium", uniform(g, b + 3, 100, 400)>>,
           <<"Women_Participation", uniform(g, b + 4, 600, 900)>> >>

\* for outer in outers: for inner in inners: data.append(row(...))
NestedLoop(outers, inners, Row(_, _, _)) ==
    [i \in 1..(Len(outers) * Len(inners)) |->
        Row(i - 1,
            outers[((i - 1) \div Len(inners)) + 1],
            inners[((i - 1) % Len(inners)) + 1])]

\* pd.DataFrame(list of dicts): the columns are the keys in insertion order,
\* each row holds the values in that order.
DataFrame(dicts) ==
    [columns |-> IF Len(dicts) = 0 THEN <<>>
                 ELSE [j \in 1..Len(dicts[1]) |-> dicts[1][j][1]],
     rows |-> [i \in 1..Len(dicts) |->
                 LET d == dicts[i] IN [j \in 1..Len(d) |-> d[j][2]]]]

Advance(g, n) == [g EXCEPT !.pos = @ + n]

\* The body of generate_sample_data, run with the generator in state g.
generate_sample_data(g) ==
    LET gi == g
        ivs_data == NestedLoop(districts, years,
                               LAMBDA r, d, y : ivs_row(gi, r, d, y))
        gt == Advance(gi, Len(ivs_data) * IvsDraws)
        tree_data == NestedLoop(districts, years,
                                LAMBDA r, d, y : tree_row(gt, r, d, y))
        gv == Advance(gt, Len(tree_data) * TreeDraws)
        veg_data == NestedLoop(districts, csa_techniques,
                               LAMBDA r, d, t : veg_row(gv, r, d, t))
    IN  [ivs |-> DataFrame(ivs_data),
         tree |-> DataFrame(tree_data),
         veg |-> DataFrame(veg_data),
         rng |-> Advance(gv, Len(veg_data) * VegDraws)]

(***************************************************************************)
(* Numbers.  A float result of a division is an exact reduced fraction     *)
(* <<num, den>> with den > 0; NaN is <<0, 0>>.                             *)
(***************************************************************************)
RECURSIVE Gcd(_, _)
Gcd(a, b) == IF b = 0 THEN a ELSE Gcd(b, a % b)

Abs(x) == IF x < 0 THEN -x ELSE x

NaN == <<0, 0>>

IsNaN(f) == f[2] = 0

Frac(n, d) ==
    IF d = 0 THEN <<0, 0>>
    ELSE LET g == Gcd(Abs(n), Abs(d))
             sgn == IF d < 0 THEN -1 ELSE 1
         IN  <<sgn * (n \div g), sgn * (d \div g)>>

FracAdd(a, b) ==
    IF IsNaN(a) \/ IsNaN(b) THEN <<0, 0>>
    ELSE Frac(a[1] * b[2] + b[1] * a[2], a[2] * b[2])

\* 1 - x, with 1.0 = 1000 thousandths.
OneMinus(x) == IF IsNaN(x) THEN <<0, 0>> ELSE Frac(1000 * x[2] - x[1], x[2])

\* The value of a one-element set (binds a computed value once).
Only(S) == CHOOSE x \in S : TRUE

RECURSIVE SumTo(_, _)
SumTo(xs, n) == IF n = 0 THEN 0 ELSE xs[n] + SumTo(xs, n - 1)

SumSeq(xs) == SumTo(xs, Len(xs))

RECURSIVE SumFrac(_)
SumFrac(fs) == IF Len(fs) = 0 THEN <<0, 1>> ELSE FracAdd(fs[1], SumFrac(Tail(fs)))

\* Series.sum(): 0 for an empty series.
sum(xs) == SumSeq(xs)

\* Series.mean() of a numeric column: NaN for an empty series.
mean(xs) == IF Len(xs) = 0 THEN <<0, 0>> ELSE Frac(SumSeq(xs), Len(xs))

\* Series.mean() of a column of means (skipna: NaN entries are left out).
mean_of_means(fs) ==
    LET kept == SelectSeq(fs, LAMBDA f : ~IsNaN(f))
        s == SumFrac(kept)
    IN  IF Len(kept) = 0 THEN <<0, 0>> ELSE Frac(s[1], s[2] * Len(kept))

\* int(total * p / 100): Python's int() truncates, and raises ValueError on NaN.
ToInt(f) ==
    IF IsNaN(f) THEN [raised |-> TRUE, value |-> 0]
    ELSE [raised |-> FALSE, value |-> f[1] \div f[2]]

(***************************************************************************)
(* DataFrame operations.                                                   *)
(***************************************************************************)
Idx(df, name) == CHOOSE j \in 1..Len(df.columns) : df.columns[j] = name

\* The set of the elements of a sequence.
Elems(xs) == {xs[i] : i \in 1..Len(xs)}

\* df[name]: the cells of one column, in row order.
Column(df, name) ==
    Only({[i \in 1..Len(df.rows) |-> df.rows[i][j]] : j \in {Idx(df, name)}})

\* Faulty variant: an empty selection is taken to mean no district filter.
isinOrAll(v, values) == values = {} \/ v \in values

\* Series.isin(values)
isin(v, values) == v \in values

\* Faulty variant: the right end of the range is left out.
betweenExclusiveRight(v, left, right) == left <= v /\ v < right

\* Series.between(left, right), inclusive="both"
between(v, left, right) == left <= v /\ v <= right

\* df[mask]: the rows whose mask is true, in their original order.
Mask(df, Test(_)) == [df EXCEPT !.rows = SelectSeq(df.rows, Test)]

\* Faulty variant: to_csv with the index column (index=True).
to_csv_with_index(df) ==
    <<(<<"">> \o df.columns)>> \o [i \in 1..Len(df.rows) |-> <<i - 1>> \o df.rows[i]]

\* df.to_csv(index=False): the header line, then one line per row.
to_csv(df) == <<df.columns>> \o df.rows

\* Faulty variant: the last group is lost.
GroupKeysDropLast(df, key, sorted) ==
    LET present == {Column(df, key)[i] : i \in 1..Len(df.rows)}
        keys == SelectSeq(sorted, LAMBDA k : k \in present)
    IN  SubSeq(keys, 1, Len(keys) - 1)

\* The group keys of df.groupby(key), sort=True: the distinct key values, sorted.
GroupKeys(df, key, sorted) ==
    Only({SelectSeq(sorted, LAMBDA k : k \in present) :
            present \in {Elems(Column(df, key))}})

\* df.groupby(key)[valcols].mean().reset_index()
groupby_mean(df, key, sorted, valcols) ==
    LET kj == Idx(df, key)
        keys == GroupKeys(df, key, sorted)
        group(k) == Mask(df, LAMBDA row : row[kj] = k)
    IN  [columns |-> <<key>> \o valcols,
         rows |-> [g \in 1..Len(keys) |->
                     Only({<<keys[g]>> \o
                           [c \in 1..Len(valcols) |-> mean(Column(grp, valcols[c]))] :
                           grp \in {group(keys[g])}})]]

\* Sort orders pandas uses for the group keys.
SortedDistricts ==
    <<"Bo", "Bombali", "Kailahun", "Kenema", "Kono", "Port Loko",
      "Tonkolili", "Western Area">>

SortedTechniques ==
    <<"Composting", "Drip Irrigation", "Intercropping", "Mulching",
      "Raised Beds">>

(***************************************************************************)
(* The sidebar.  A widget the user has not touched holds <<>>, and the     *)
(* script then reads the widget's default; otherwise it holds <<value>>.   *)
(***************************************************************************)
SliderMin == 2020
SliderMax == 2024

GenderOptions == <<"All", "Women Focus", "Youth Focus">>

Untouched ==
    [selected_districts |-> <<>>, selected_years |-> <<>>,
     csa_filter |-> <<>>, gender_focus |-> <<>>]

WidgetValue(w, default) == IF Len(w) = 0 THEN default ELSE w[1]

\* Series.unique(): the distinct values in order of first appearance.
unique(xs) ==
    SelectSeq([i \in 1..Len(xs) |-> <<i, xs[i]>>],
              LAMBDA p : \A j \in 1..(p[1] - 1) : xs[j] # p[2])

Values(ps) == [i \in 1..Len(ps) |-> ps[i][2]]

\* xs[:n]
Take(xs, n) == SubSeq(xs, 1, IF n < Len(xs) THEN n ELSE Len(xs))

DefaultPick == 3

district_options(ivs_df) == Values(unique(Column(ivs_df, "District")))

csa_options(veg_df) == <<"All">> \o Values(unique(Column(veg_df, "CSA_Technique")))

\* The values the four sidebar widgets return in this run.
Sidebar(w, ivs_df, veg_df) ==
    [selected_districts |->
        WidgetValue(w.selected_districts,
                    Elems(Take(district_options(ivs_df), DefaultPick))),
     selected_years |-> WidgetValue(w.selected_years, <<2022, 2024>>),
     csa_filter |-> WidgetValue(w.csa_filter, csa_options(veg_df)[1]),
     gender_focus |-> WidgetValue(w.gender_focus, GenderOptions[1])]

(***************************************************************************)
(* Filtering.                                                              *)
(***************************************************************************)
filtered_ivs(ivs_df, f) ==
    LET dj == Idx(ivs_df, "District")
        yj == Idx(ivs_df, "Year")
    IN  Mask(ivs_df, LAMBDA row :
            isin(row[dj], f.selected_districts)
            /\ between(row[yj], f.selected_years[1], f.selected_years[2]))

filtered_tree(tree_df, f) ==
    LET dj == Idx(tree_df, "District")
        yj == Idx(tree_df, "Year")
    IN  Mask(tree_df, LAMBDA row :
            isin(row[dj], f.selected_districts)
            /\ between(row[yj], f.selected_years[1], f.selected_years[2]))

\* Faulty variant: the technique filter is applied for 'All' too.
filtered_veg_always(veg_df, f) ==
    LET dj == Idx(veg_df, "District")
        tj == Idx(veg_df, "CSA_Technique")
        by_district == Mask(veg_df, LAMBDA row : isin(row[dj], f.selected_districts))
    IN  Mask(by_district, LAMBDA row : row[tj] = f.csa_filter)

\* Faulty variant: 'Women Focus' keeps the rows with at least 75% women participation.
filtered_veg_gender(veg_df, f) ==
    LET dj == Idx(veg_df, "District")
        tj == Idx(veg_df, "CSA_Technique")
        wj == Idx(veg_df, "Women_Participation")
        by_district == Mask(veg_df, LAMBDA row :
            /\ isin(row[dj], f.selected_districts)
            /\ (f.gender_focus = "Women Focus" => row[wj] >= 750))
    IN  IF f.csa_filter # "All"
        THEN Mask(by_district, LAMBDA row : row[tj] = f.csa_filter)
        ELSE by_district

filtered_veg(veg_df, f) ==
    LET dj == Idx(veg_df, "District")
        tj == Idx(veg_df, "CSA_Technique")
        by_district == Mask(veg_df, LAMBDA row : isin(row[dj], f.selected_districts))
    IN  IF f.csa_filter # "All"
        THEN Mask(by_district, LAMBDA row : row[tj] = f.csa_filter)
        ELSE by_district

(***************************************************************************)
(* The KPI tiles, the charts' inputs, the map markers and the exports.     *)
(***************************************************************************)
\* int(total * pct / 100), the delta shown under a tile (exact arithmetic: the
\* binary rounding of the float factor is not modelled).
Delta(total, pct) == ToInt(Frac(total * pct, 100))

district_coords == Elems(districts)

\* The script from the KPI tiles to the exports, on the filter values f and
\* the filtered tables fi, ft, fv.
Page(f, fi, ft, fv) ==
    LET
        total_hectares == sum(Column(fi, "Hectares_Developed"))
        total_farmers == sum(Column(fi, "Farmers_Count"))
        avg_csa_adoption == mean(Column(fi, "CSA_Adoption_Rate"))
        total_cocoa == sum(Column(ft, "Cocoa_Seedlings"))
        total_palm == sum(Column(ft, "Oil_Palm_Seedlings"))
        total_seedlings == total_cocoa + total_palm
        d_hectares == Delta(total_hectares, 15)
        d_farmers == Delta(total_farmers, 12)
        d_seedlings == Delta(total_seedlings, 8)
        gender_participation ==
            groupby_mean(fv, "District", SortedDistricts, <<"Women_Participation">>)
        women == mean_of_means(Column(gender_participation, "Women_Participation"))
        dj == Idx(fi, "District")
        district_data(d) == Mask(fi, LAMBDA row : row[dj] = d)
        raised == d_hectares.raised \/ d_farmers.raised \/ d_seedlings.raised
    IN  [selected |-> f,
         filtered_ivs |-> fi,
         filtered_tree |-> ft,
         filtered_veg |-> fv,
         total_hectares |-> total_hectares,
         total_farmers |-> total_farmers,
         avg_csa_adoption |-> avg_csa_adoption,
         total_seedlings |-> total_seedlings,
         deltas |-> <<d_hectares.value, d_farmers.value, d_seedlings.value>>,
         district_csa |->
            groupby_mean(fi, "District", SortedDistricts, <<"CSA_Adoption_Rate">>),
         yield_comparison |->
            groupby_mean(fi, "Year", years, <<"Yield_Traditional", "Yield_CSA">>),
         donut |-> <<total_cocoa, total_palm>>,
         survival_income |->
            groupby_mean(ft, "District", SortedDistricts,
                         <<"Survival_Rate_Year2", "Income_Change">>),
         technique_yield |->
            groupby_mean(fv, "CSA_Technique", SortedTechniques,
                         <<"Onion_Yield_Increase", "Pepper_Yield_Increase">>),
         gender_participation |-> gender_participation,
         pie |-> <<women, OneMinus(women)>>,
         markers |->
            [d \in f.selected_districts \cap district_coords |->
                Only({[farmers |-> sum(Column(dd, "Farmers_Count")),
                       hectares |-> sum(Column(dd, "Hectares_Developed")),
                       csa |-> mean(Column(dd, "CSA_Adoption_Rate"))] :
                      dd \in {district_data(d)}})],
         csv_ivs |-> to_csv(fi),
         csv_tree |-> to_csv(ft),
         csv_veg |-> to_csv(fv),
         outcome |-> IF raised THEN "ValueError" ELSE "ok"]

\* One run of the script below the data loading, on tables t and widgets w.
Render(t, w) ==
    Only({Only({Page(f, fi, ft, fv) :
                    fi \in {filtered_ivs(t.ivs, f)},
                    ft \in {filtered_tree(t.tree, f)},
                    fv \in {filtered_veg(t.veg, f)}}) :
            f \in {Sidebar(w, t.ivs, t.veg)}})

(***************************************************************************)
(* Data loading through @st.cache_data: one store per decorated function,  *)
(* shared by every session of the process, filled by the first call.       *)
(***************************************************************************)
Tables(r) == [ivs |-> r.ivs, tree |-> r.tree, veg |-> r.veg]

\* A miss of the memo: session s runs the body and stores its result.
run_body(c, g, s) ==
    LET r == generate_sample_data(g)
    IN  [value |-> Tables(r),
         cache |-> <<[value |-> Tables(r), producer |-> s]>>,
         rng |-> r.rng, calls |-> 1, producer |-> s]

\* Faulty variant: no memo, every call runs the body.
uncached_call(c, g, s) == run_body(c, g, s)

\* generate_sample_data() as called by session s with store c and generator g.
cached_call(c, g, s) ==
    IF Len(c) = 0
    THEN run_body(c, g, s)
    ELSE [value |-> c[1].value, cache |-> c, rng |-> g, calls |-> 0,
          producer |-> c[1].producer]

\* One execution of the whole script for session s with widget state w.
RunScript(s, w) ==
    \E load \in {cached_call(cache, rng, s)} :
        /\ cache' = load.cache
        /\ rng' = load.rng
        /\ genCalls' = genCalls + load.calls
        /\ widgets' = [widgets EXCEPT ![s] = w]
        /\ pc' = [pc EXCEPT ![s] = "rendered"]
        /\ frame' = [frame EXCEPT ![s] =
                [ivs_df |-> load.value.ivs,
                 tree_df |-> load.value.tree,
                 veg_df |-> load.value.veg,
                 producer |-> load.producer] @@ Render(load.value, w)]

(***************************************************************************)
(* The state machine: sessions open the page, then change one widget at a  *)
(* time; every change re-executes the script.                              *)
(***************************************************************************)
Init ==
    /\ rng \in [seed : Seeds, pos : {0}]
    /\ cache = <<>>
    /\ genCalls = 0
    /\ widgets = [s \in Sessions |-> Untouched]
    /\ pc = [s \in Sessions |-> "new"]
    /\ frame = [s \in Sessions |-> NoFrame]
    /\ reruns = 0

\* A session opens the page: the first run of the script.
FirstRun(s) ==
    /\ pc[s] = "new"
    /\ RunScript(s, widgets[s])
    /\ UNCHANGED reruns

Interact(s, w) ==
    /\ pc[s] = "rendered"
    /\ reruns < MaxReruns
    /\ reruns' = reruns + 1
    /\ RunScript(s, w)

\* The multiselect: one district is added to or removed from the selection.
ToggleDistrict(s) ==
    /\ pc[s] = "rendered"
    /\ \E options \in {district_options(frame[s].ivs_df)} :
       \E i \in 1..Len(options) :
        LET d == options[i]
            cur == frame[s].selected.selected_districts
            new == IF d \in cur THEN cur \ {d} ELSE cur \cup {d}
        IN  Interact(s, [widgets[s] EXCEPT !.selected_districts = <<new>>])

\* The multiselect's clear-all button.
ClearDistricts(s) ==
    /\ pc[s] = "rendered"
    /\ frame[s].selected.selected_districts # {}
    /\ Interact(s, [widgets[s] EXCEPT !.selected_districts = <<{}>>])

\* The range slider: one handle is dragged; the handles never cross.
MoveSlider(s) ==
    /\ pc[s] = "rendered"
    /\ \E lo \in SliderMin..SliderMax, hi \in SliderMin..SliderMax :
        LET cur == frame[s].selected.selected_years
        IN  /\ lo <= hi
            /\ (lo = cur[1]) # (hi = cur[2])
            /\ Interact(s, [widgets[s] EXCEPT !.selected_years = <<<<lo, hi>>>>])

SelectCsa(s) ==
    /\ pc[s] = "rendered"
    /\ \E options \in {csa_options(frame[s].veg_df)} :
       \E i \in 1..Len(options) :
        /\ options[i] # frame[s].selected.csa_filter
        /\ Interact(s, [widgets[s] EXCEPT !.csa_filter = <<options[i]>>])

SelectGender(s) ==
    /\ pc[s] = "rendered"
    /\ \E i \in 1..Len(GenderOptions) :
        /\ GenderOptions[i] # frame[s].selected.gender_focus
        /\ Interact(s, [widgets[s] EXCEPT !.gender_focus = <<GenderOptions[i]>>])

Next ==
    \E s \in Sessions :
        \/ FirstRun(s)
        \/ ToggleDistrict(s)
        \/ ClearDistricts(s)
        \/ MoveSlider(s)
        \/ SelectCsa(s)
        \/ SelectGender(s)

Spec == Init /\ [][Next]_vars

(***************************************************************************)
(* The aggregation as a function of an arbitrary FilterSelection: the      *)
(* widget state is any selection of the bounded family below, including    *)
(* year ranges with lo > hi, and the script runs once on it.               *)
(***************************************************************************)
DistrictChoices ==
    {D \in SUBSET Elems(districts) : Cardinality(D) <= MaxPick}
        \cup {Elems(districts)}

FilterSelections ==
    [selected_districts : {<<D>> : D \in DistrictChoices},
     selected_years : {<<<<lo, hi>>>> : lo \in SliderMin..SliderMax,
                                        hi \in SliderMin..SliderMax},
     csa_filter : {<<"All">>} \cup {<<csa_techniques[i]>> : i \in 1..Len(csa_techniques)},
     gender_focus : {<<GenderOptions[1]>>}]

AggSession == "s1"

InitAgg ==
    /\ rng \in [seed : Seeds, pos : {0}]
    /\ cache = <<>>
    /\ genCalls = 0
    /\ \E f \in FilterSelections : widgets = [s \in Sessions |-> f]
    /\ pc = [s \in Sessions |-> "new"]
    /\ frame = [s \in Sessions |-> NoFrame]
    /\ reruns = 0

Aggregate == FirstRun(AggSession)

NextAgg == Aggregate

SpecAgg == InitAgg /\ [][NextAgg]_vars

(***************************************************************************)
(* Vocabulary of the properties.                                           *)
(***************************************************************************)
Rendered(s) == pc[s] = "rendered"

\* The cell of a row of df in the column called name.
Cell(df, row, name) == row[Idx(df, name)]

\* The indices of the rows of df that satisfy P.
RowsWhere(df, P(_)) == {i \in 1..Len(df.rows) : P(df.rows[i])}

\* The total of a column over a set of row indices.
RECURSIVE TotalOver(_, _, _)
TotalOver(df, name, I) ==
    IF I = {} THEN 0
    ELSE LET i == CHOOSE k \in I : TRUE
         IN  Cell(df, df.rows[i], name) + TotalOver(df, name, I \ {i})

AllRows(df) == 1..Len(df.rows)

\* rows holds exactly the rows of df with index in I, each once.
HoldsExactly(rows, df, I) ==
    /\ Len(rows) = Cardinality(I)
    /\ {rows[a] : a \in 1..Len(rows)} = {df.rows[i] : i \in I}

\* rows is a subsequence of the rows of df: an increasing choice of indices.
RECURSIVE IsSubsequence(_, _, _, _)
IsSubsequence(rows, a, all, b) ==
    IF a > Len(rows) THEN TRUE
    ELSE IF b > Len(all) THEN FALSE
    ELSE IF rows[a] = all[b] THEN IsSubsequence(rows, a + 1, all, b + 1)
    ELSE IsSubsequence(rows, a, all, b + 1)

InYears(df, row, lo, hi) ==
    Cell(df, row, "Year") >= lo /\ Cell(df, row, "Year") <= hi

InDistricts(df, row, D) == Cell(df, row, "District") \in D

(***************************************************************************)
(* C1: the filtered IVS and tree-crop tables hold exactly the generated     *)
(* rows whose District is selected and whose Year lies in lo..hi, both      *)
(* ends included; the filtered vegetable table holds exactly the generated  *)
(* rows whose District is selected and, unless the technique is 'All',      *)
(* whose CSA_Technique is the chosen one.                                   *)
(***************************************************************************)
C1_FilterMembership ==
    \A s \in Sessions :
        Rendered(s) =>
            LET F == frame[s]
                D == F.selected.selected_districts
                lo == F.selected.selected_years[1]
                hi == F.selected.selected_years[2]
                tq == F.selected.csa_filter
            IN  lo <= hi =>
                /\ HoldsExactly(F.filtered_ivs.rows, F.ivs_df,
                      RowsWhere(F.ivs_df, LAMBDA r :
                          InDistricts(F.ivs_df, r, D) /\ InYears(F.ivs_df, r, lo, hi)))
                /\ HoldsExactly(F.filtered_tree.rows, F.tree_df,
                      RowsWhere(F.tree_df, LAMBDA r :
                          InDistricts(F.tree_df, r, D) /\ InYears(F.tree_df, r, lo, hi)))
                /\ HoldsExactly(F.filtered_veg.rows, F.veg_df,
                      RowsWhere(F.veg_df, LAMBDA r :
                          /\ InDistricts(F.veg_df, r, D)
                          /\ (tq # "All" => Cell(F.veg_df, r, "CSA_Technique") = tq)))

\* A run that keeps rows at both ends of a proper year range and drops others.
C1_Witness ==
    \E s \in Sessions :
        /\ Rendered(s)
        /\ LET F == frame[s]
               lo == F.selected.selected_years[1]
               hi == F.selected.selected_years[2]
           IN  /\ SliderMin < lo /\ lo < hi
               /\ F.selected.csa_filter # "All"
               /\ \E a, b \in 1..Len(F.filtered_ivs.rows) :
                    /\ Cell(F.ivs_df, F.filtered_ivs.rows[a], "Year") = lo
                    /\ Cell(F.ivs_df, F.filtered_ivs.rows[b], "Year") = hi
               /\ Len(F.filtered_ivs.rows) < Len(F.ivs_df.rows)
               /\ Len(F.filtered_veg.rows) > 0

C3_EmptySelection ==
    \A s \in Sessions :
        (Rendered(s) /\ frame[s].selected.selected_districts = {}) =>
            LET F == frame[s]
            IN  /\ F.outcome = "ok"
                /\ F.filtered_ivs.rows = <<>>
                /\ F.filtered_tree.rows = <<>>
                /\ F.filtered_veg.rows = <<>>
                /\ F.total_hectares = 0
                /\ F.total_farmers = 0
                /\ F.total_seedlings = 0
                /\ F.deltas = <<0, 0, 0>>
                /\ F.avg_csa_adoption = NaN
                /\ F.pie = <<NaN, NaN>>
                /\ F.district_csa.rows = <<>>
                /\ F.yield_comparison.rows = <<>>
                /\ F.survival_income.rows = <<>>
                /\ F.technique_yield.rows = <<>>
                /\ F.gender_participation.rows = <<>>
                /\ DOMAIN F.markers = {}
                /\ F.csv_ivs = <<F.ivs_df.columns>>
                /\ F.csv_tree = <<F.tree_df.columns>>
                /\ F.csv_veg = <<F.veg_df.columns>>

\* A session whose multiselect has been cleared and whose page has rerun.
C3_Witness ==
    \E s \in Sessions :
        /\ Rendered(s)
        /\ frame[s].selected.selected_districts = {}
        /\ widgets[s].selected_districts = <<{}>>
        /\ reruns > 0

(***************************************************************************)
(* C4: once a session has run, every later step of the system leaves the    *)
(* tables that session reads unchanged, field for field, and does not       *)
(* execute the body of generate_sample_data again.                          *)
(***************************************************************************)
SessionTables(s) == <<frame[s].ivs_df, frame[s].tree_df, frame[s].veg_df>>

C4_TablesStable ==
    [][\A s \in Sessions :
          Rendered(s) =>
              /\ SessionTables(s)' = SessionTables(s)
              /\ genCalls' = genCalls]_vars

\* A session that has rerun after a filter change.
C4_Witness ==
    \E s \in Sessions :
        /\ Rendered(s)
        /\ widgets[s] # Untouched
        /\ reruns > 0
        /\ genCalls = 1

(***************************************************************************)
(* C5: with two sessions in one process, the tables a session reads were    *)
(* produced by that session's own execution of generate_sample_data, never  *)
(* by another session's.                                                    *)
(***************************************************************************)
C5_OwnGeneratorRun ==
    \A s \in Sessions : Rendered(s) => frame[s].producer = s

(***************************************************************************)
(* C6: with every district, the full year range 2020..2024 and technique    *)
(* 'All', each filtered table equals the generated table and the KPI totals *)
(* are the column totals of the full generated tables.                      *)
(***************************************************************************)
SelectsEverything(F) ==
    /\ F.selected.selected_districts =
          {Cell(F.ivs_df, F.ivs_df.rows[i], "District") : i \in AllRows(F.ivs_df)}
    /\ F.selected.selected_years = <<2020, 2024>>
    /\ F.selected.csa_filter = "All"

C6_SelectAllIsNoOp ==
    \A s \in Sessions :
        (Rendered(s) /\ SelectsEverything(frame[s])) =>
            LET F == frame[s]
            IN  /\ F.filtered_ivs = F.ivs_df
                /\ F.filtered_tree = F.tree_df
                /\ F.filtered_veg = F.veg_df
                /\ F.total_hectares =
                     TotalOver(F.ivs_df, "Hectares_Developed", AllRows(F.ivs_df))
                /\ F.total_farmers =
                     TotalOver(F.ivs_df, "Farmers_Count", AllRows(F.ivs_df))
                /\ F.total_seedlings =
                     TotalOver(F.tree_df, "Cocoa_Seedlings", AllRows(F.tree_df))
                     + TotalOver(F.tree_df, "Oil_Palm_Seedlings", AllRows(F.tree_df))

C6_Witness ==
    \E s \in Sessions :
        /\ Rendered(s)
        /\ SelectsEverything(frame[s])
        /\ Len(frame[s].filtered_ivs.rows) > 0
        /\ frame[s].total_seedlings > 0

(***************************************************************************)
(* C7: the generated IVS and tree-crop tables have one row per (district,   *)
(* year) for the 8 districts and the years 2020..2024, the vegetable table  *)
(* one row per (district, technique) for the 8 districts and 5 techniques:  *)
(* 40 rows each, no others, in district-major order.                        *)
(***************************************************************************)
OneRowPerPair(df, outer, inner, innerName) ==
    \E dj \in {Idx(df, "District")}, ij \in {Idx(df, innerName)} :
        /\ Len(df.rows) = Len(outer) * Len(inner)
        \* every row is one of the combinations, and no two rows are the same one
        /\ \A i \in AllRows(df) :
            /\ df.rows[i][dj] \in Elems(outer)
            /\ df.rows[i][ij] \in Elems(inner)
        /\ Cardinality({<<df.rows[i][dj], df.rows[i][ij]>> : i \in AllRows(df)})
              = Len(df.rows)
        \* district-major order
        /\ \A a \in 1..Len(outer), b \in 1..Len(inner) :
            /\ df.rows[(a - 1) * Len(inner) + b][dj] = outer[a]
            /\ df.rows[(a - 1) * Len(inner) + b][ij] = inner[b]

C7_OneRowPerCombination ==
    Len(cache) = 1 =>
        LET t == cache[1].value
        IN  /\ Len(districts) = 8
            /\ Len(csa_techniques) = 5
            /\ Len(t.ivs.rows) = 40
            /\ Len(t.tree.rows) = 40
            /\ Len(t.veg.rows) = 40
            /\ OneRowPerPair(t.ivs, districts, <<2020, 2021, 2022, 2023, 2024>>, "Year")
            /\ OneRowPerPair(t.tree, districts, <<2020, 2021, 2022, 2023, 2024>>, "Year")
            /\ OneRowPerPair(t.veg, districts, csa_techniques, "CSA_Technique")
            /\ \A s \in Sessions :
                 Rendered(s) => SessionTables(s) = <<t.ivs, t.tree, t.veg>>

\* A session has loaded the tables the generator's body produced.
C7_Witness ==
    \E s \in Sessions : Rendered(s) /\ genCalls = 1 /\ Len(cache) = 1

(***************************************************************************)
(* C8: over a non-empty filtered IVS table, the per-district means of       *)
(* CSA_Adoption_Rate, each weighted by its district's number of filtered    *)
(* rows, add up to the column total, the weights add up to the row count,   *)
(* and the weighted mean is the CSA Adoption Rate KPI.                      *)
(***************************************************************************)
\* The filtered IVS rows of district d.
DistrictRows(F, d) ==
    RowsWhere(F.filtered_ivs, LAMBDA r : Cell(F.filtered_ivs, r, "District") = d)

\* mean * weight for the group of row g of district_csa, when it is a whole number.
Weighted(F, g) ==
    LET m == F.district_csa.rows[g][2]
        n == Cardinality(DistrictRows(F, F.district_csa.rows[g][1]))
    IN  [exact |-> m[2] > 0 /\ (m[1] * n) % m[2] = 0,
         value |-> IF m[2] > 0 THEN (m[1] * n) \div m[2] ELSE 0,
         weight |-> n]

RECURSIVE SumOverGroups(_, _, _)
SumOverGroups(F, g, field) ==
    IF g = 0 THEN 0
    ELSE (IF field = "value" THEN Weighted(F, g).value ELSE Weighted(F, g).weight)
         + SumOverGroups(F, g - 1, field)

C8_WeightedGroupMeans ==
    \A s \in Sessions :
        (Rendered(s) /\ Len(frame[s].filtered_ivs.rows) > 0) =>
            LET F == frame[s]
                G == Len(F.district_csa.rows)
                N == Len(F.filtered_ivs.rows)
                total == TotalOver(F.filtered_ivs, "CSA_Adoption_Rate",
                                   AllRows(F.filtered_ivs))
            IN  /\ F.district_csa.columns = <<"District", "CSA_Adoption_Rate">>
                /\ \A g \in 1..G : Weighted(F, g).exact
                /\ SumOverGroups(F, G, "weight") = N
                /\ SumOverGroups(F, G, "value") = total
                \* the overall mean is total / N, as a reduced fraction
                /\ F.avg_csa_adoption[2] > 0
                /\ F.avg_csa_adoption[1] * N = total * F.avg_csa_adoption[2]

\* A run with several districts, several rows each.
C8_Witness ==
    \E s \in Sessions :
        /\ Rendered(s)
        /\ Len(frame[s].district_csa.rows) >= 2
        /\ Len(frame[s].filtered_ivs.rows) >= 2 * Len(frame[s].district_csa.rows)
        /\ frame[s].avg_csa_adoption[2] > 1

(***************************************************************************)
(* C9: each exported table is the filtered table: a header with the columns *)
(* in the order the generator wrote the fields, then the filtered rows,     *)
(* which are a subsequence of the generated rows in generation order.       *)
(***************************************************************************)
IvsFieldOrder ==
    <<"District", "Year", "Hectares_Developed", "Farmers_Count", "Women_Farmers",
      "Youth_Farmers", "CSA_Adoption_Rate", "Yield_Traditional", "Yield_CSA",
      "Income_Before", "Income_After">>

TreeFieldOrder ==
    <<"District", "Year", "Cocoa_Seedlings", "Oil_Palm_Seedlings",
      "Survival_Rate_Year2", "Farmers_Trained", "Income_Change">>

VegFieldOrder ==
    <<"District", "CSA_Technique", "Farmers_Supported", "Onion_Yield_Increase",
      "Pepper_Yield_Increase", "Price_Premium", "Women_Participation">>

ExportsTable(csv, filtered, generated, order) ==
    /\ Len(csv) = Len(filtered.rows) + 1
    /\ csv[1] = order
    /\ \A a \in 1..Len(filtered.rows) :
        /\ csv[a + 1] = filtered.rows[a]
        /\ Len(csv[a + 1]) = Len(order)
    /\ IsSubsequence(filtered.rows, 1, generated.rows, 1)

C9_ExportIsFilteredTable ==
    \A s \in Sessions :
        Rendered(s) =>
            LET F == frame[s]
            IN  /\ ExportsTable(F.csv_ivs, F.filtered_ivs, F.ivs_df, IvsFieldOrder)
                /\ ExportsTable(F.csv_tree, F.filtered_tree, F.tree_df, TreeFieldOrder)
                /\ ExportsTable(F.csv_veg, F.filtered_veg, F.veg_df, VegFieldOrder)

\* An export of some, not all, rows of each table.
C9_Witness ==
    \E s \in Sessions :
        /\ Rendered(s)
        /\ Len(frame[s].csv_ivs) > 2
        /\ Len(frame[s].csv_ivs) <= Len(frame[s].ivs_df.rows)
        /\ Len(frame[s].csv_veg) > 2
        /\ Len(frame[s].csv_veg) <= Len(frame[s].veg_df.rows)

(***************************************************************************)
(* C10: two runs over the same generated tables that agree on the selected  *)
(* districts, the year range and the technique, and differ in gender_focus, *)
(* have the same filtered tables, KPIs, grouped aggregates and exports.     *)
(***************************************************************************)
Results(F) == [F EXCEPT !.selected = <<>>, !.producer = ""]

DifferOnlyInGender(F, G) ==
    /\ <<F.ivs_df, F.tree_df, F.veg_df>> = <<G.ivs_df, G.tree_df, G.veg_df>>
    /\ F.selected.selected_districts = G.selected.selected_districts
    /\ F.selected.selected_years = G.selected.selected_years
    /\ F.selected.csa_filter = G.selected.csa_filter
    /\ F.selected.gender_focus # G.selected.gender_focus

C10_GenderFocusIgnored ==
    \A s, t \in Sessions :
        (Rendered(s) /\ Rendered(t) /\ DifferOnlyInGender(frame[s], frame[t]))
            => Results(frame[s]) = Results(frame[t])

C10_Witness ==
    \E s, t \in Sessions :
        /\ Rendered(s) /\ Rendered(t)
        /\ DifferOnlyInGender(frame[s], frame[t])
        /\ frame[s].selected.gender_focus = "Women Focus"
        /\ Len(frame[s].filtered_veg.rows) > 0

====
